---- MODULE Spec2Model ----
(***************************************************************************)
(* The Gemini bridge of app/src/index.ts: one downstream WebSocket         *)
(* (`client`) accepted on /gemini is paired with one upstream WebSocket    *)
(* (`geminiWs`).  The model follows one downstream connection from the     *)
(* "connection" event of the server to the end of the session.  Every     *)
(* action is one event handler of the source, run to completion (the Node  *)
(* event loop serialises the handlers of a session).                       *)
(*                                                                         *)
(* The browser client (the SPA) is modelled next to it, each part under    *)
(* its own specification: the PCM codec (decodeBase64ToInt16,              *)
(* int16ToBase64, downsampleTo16k), the playback scheduler and the         *)
(* microphone capture.  A specification moves the variables of its own     *)
(* part and leaves the others at rest.                                     *)
(***************************************************************************)
EXTENDS Integers, Sequences, FiniteSets, TLC

(* Number of events (handler runs) followed in one session. *)
MaxEvents == 6

(* ------------------------------------------------------------------ *)
(* JSON values                                                         *)
(* ------------------------------------------------------------------ *)

(* JavaScript `undefined`: an absent member, or no value. *)
undefined == "<undefined>"

(* JavaScript `null`: the JSON value null, and the failure of parseJson. *)
null == [null |-> TRUE]

(* Wire data that is not JSON text. *)
Garbage == [json |-> FALSE]

(* Wire data that is the JSON text of value v. *)
Json(v) == [json |-> TRUE, value |-> v]

(* A JSON object a client can send: its type, data and mimeType members    *)
(* (undefined when the member is absent).                                  *)
ClientObj(t, d, m) == [type |-> t, data |-> d, mimeType |-> m]

(* The message types client.on("message") knows. *)
KnownTypes == {"ping", "audio", "audioStreamEnd", "text"}

(* The frames a client sends in the model: not JSON, JSON null, an object  *)
(* without type, and objects of every known type and of an unknown one,    *)
(* with and without the optional members.                                  *)
ClientData ==
  { Garbage, Json(null) } \cup
  { Json(ClientObj(t, d, m)) :
      <<t, d, m>> \in
        { <<undefined, undefined, undefined>>,
          <<"ping", undefined, undefined>>,
          <<"audio", "AAAA", undefined>>,
          <<"audio", "AAAA", "audio/pcm;rate=24000">>,
          <<"audio", undefined, "audio/pcm;rate=16000">>,
          <<"audioStreamEnd", undefined, undefined>>,
          <<"text", "hi", undefined>>,
          <<"foo", undefined, undefined>> } }

(* A JSON object the upstream sends, by the set of its own top-level keys. *)
GeminiObj(k) == [keys |-> k]

(* The frames the upstream sends in the model. *)
GeminiData ==
  { Garbage, Json(null),
    Json(GeminiObj({"setupComplete"})),
    Json(GeminiObj({"serverContent"})) }

(* The (code, reason) pairs of an upstream close. *)
CloseEvents == { [code |-> 1000, reason |-> "done"], [code |-> 1006, reason |-> ""] }

(* JavaScript truthiness of a string member: absent and "" are falsy. *)
Truthy(v) == v \notin {undefined, ""}

(* Object.prototype.hasOwnProperty.call(message, key) *)
hasOwnProperty(message, key) == key \in message.keys

(* ------------------------------------------------------------------ *)
(* Helpers of the source                                               *)
(* ------------------------------------------------------------------ *)

(* parseJson: the parsed value, or null when JSON.parse throws. *)
parseJson(data) == IF data.json THEN data.value ELSE null

(* buildGeminiSetup: the setup frame (its content is fixed per process). *)
buildGeminiSetup == [setup |-> "models/gemini"]

(* An entry of a socket's outbound log: a frame sent, or a close call. *)
Sent(payload) == [op |-> "send", payload |-> payload]
Closed(code, reason) == [op |-> "close", code |-> code, reason |-> reason]

(* sendJson(ws, payload) on a socket whose outbound log is log and whose   *)
(* readyState is rs: ws.send transmits on an OPEN socket only.             *)
sendJson(log, rs, payload) ==
  IF rs = "OPEN" THEN Append(log, Sent(payload)) ELSE log

(* ws.close(code, reason): starts the closing handshake of an OPEN socket, *)
(* does nothing on a socket already CLOSING or CLOSED.                     *)
closeLog(log, rs, code, reason) ==
  IF rs = "OPEN" THEN Append(log, Closed(code, reason)) ELSE log
closeState(rs) == IF rs = "OPEN" THEN "CLOSING" ELSE rs

(* ------------------------------------------------------------------ *)
(* State                                                               *)
(* ------------------------------------------------------------------ *)

VARIABLES
  enableGeminiBridge, (* process.env.ENABLE_GEMINI_BRIDGE === "1" *)
  geminiApiKey,       (* process.env.GEMINI_API_KEY ?? "" *)
  client,             (* readyState of the downstream socket, NONE before the connection *)
  geminiWs,           (* readyState of the upstream socket, NONE while not constructed *)
  registered,         (* the handlers of lines 184-276 are registered *)
  down,               (* what the bridge sent and did on the downstream socket, in order *)
  up,                 (* the frames the bridge sent upstream, in order *)
  upConnections,      (* number of upstream sockets constructed for this connection *)
  upEnd,              (* how the bridge ended the upstream: none, close or terminate *)
  lastEv,             (* the event handled last, with its input *)
  nEv                 (* number of events handled *)

(* The variables of the bridge. *)
bridgeVars == <<enableGeminiBridge, geminiApiKey, client, geminiWs, registered,
                down, up, upConnections, upEnd, lastEv, nEv>>

(* The PCM codec of the SPA: one conversion followed from input to result. *)
VARIABLES
  codecPc,            (* off, input, decoded, encoded or resampled *)
  base64,             (* the base64 text given to decodeBase64ToInt16 *)
  block,              (* the capture block given to downsampleTo16k *)
  pcm16,              (* the Int16Array a conversion returned *)
  encoded             (* the base64 text int16ToBase64 returned *)

codecVars == <<codecPc, base64, block, pcm16, encoded>>

(* The codec at rest. *)
CodecOff ==
  /\ codecPc = "off"
  /\ base64 = <<>>
  /\ block = [buffer |-> <<>>, sampleRate |-> 0]
  /\ pcm16 = <<>>
  /\ encoded = <<>>

(* The playback scheduler of the SPA.  Times are in units of 20 ms. *)
VARIABLES
  geminiAudioContext,   (* an AudioContext exists *)
  currentTime,          (* geminiAudioContext.currentTime *)
  geminiOutputTime,     (* the timeline cursor *)
  geminiPlaybackPrimed, (* a buffer was scheduled since the last flush *)
  geminiPlaying,        (* the tracked sources, by their index in `sources` *)
  sources,              (* every source started: start, duration, state, stop time, its call *)
  room,                 (* a LiveKit room is connected *)
  geminiLivekitTrack,   (* geminiLivekitTrack is not null *)
  playCalls,            (* the playGeminiAudio calls suspended at line 192, in call order *)
  nChunks,              (* number of playGeminiAudio calls made *)
  nFlush                (* number of stopGeminiPlayback calls made *)

playVars == <<geminiAudioContext, currentTime, geminiOutputTime, geminiPlaybackPrimed,
              geminiPlaying, sources, room, geminiLivekitTrack, playCalls,
              nChunks, nFlush>>

(* The scheduler at rest: the initial values of lines 28-45. *)
PlayOff ==
  /\ geminiAudioContext = FALSE
  /\ currentTime = 0
  /\ geminiOutputTime = 0
  /\ geminiPlaybackPrimed = FALSE
  /\ geminiPlaying = {}
  /\ sources = <<>>
  /\ room = FALSE
  /\ geminiLivekitTrack = FALSE
  /\ playCalls = <<>>
  /\ nChunks = 0
  /\ nFlush = 0

(* The bridge connection and the microphone capture of the SPA. *)
VARIABLES
  geminiWsSpa,      (* geminiWs of the SPA: 0 for null, or the index of a socket *)
  readyState,       (* readyState of every WebSocket created, in creation order *)
  sent,             (* the frames sent on every WebSocket *)
  gotReady,         (* for every WebSocket: a ready frame was received on it *)
  geminiReady,      (* the readiness flag *)
  geminiWorklet,    (* 0 for null, or the index of a worklet node *)
  worklets,         (* for every AudioWorkletNode created: port.onmessage is set *)
  geminiMicStream,  (* 0 for null, or the index of a stream *)
  streams,          (* for every MediaStream acquired: its tracks are live *)
  connectCalls,     (* the connect clicks suspended at await fetchConfig(), line 413 *)
  micCalls,         (* the startGeminiMic calls suspended at lines 268 or 270 *)
  btnDisabled,      (* disabled of geminiConnectBtn, geminiDisconnectBtn, geminiMicBtn *)
  capEv,            (* the event handled last *)
  nCap              (* number of events handled *)

capVars == <<geminiWsSpa, readyState, sent, gotReady, geminiReady, geminiWorklet, worklets,
             geminiMicStream, streams, connectCalls, micCalls, btnDisabled, capEv, nCap>>

(* The connection and the capture before any event: the initial values of *)
(* lines 28-45, no socket, no node, no stream.                             *)
CapIdle ==
  /\ geminiWsSpa = 0
  /\ readyState = <<>>
  /\ sent = <<>>
  /\ gotReady = <<>>
  /\ geminiReady = FALSE
  /\ geminiWorklet = 0
  /\ worklets = <<>>
  /\ geminiMicStream = 0
  /\ streams = <<>>
  /\ connectCalls = 0
  /\ micCalls = <<>>
  /\ capEv = [kind |-> "init", stopMic |-> FALSE]
  /\ nCap = 0

(* The connection and the capture at rest, the buttons as the handlers of  *)
(* lines 502-504 leave them.                                               *)
CapOff ==
  /\ CapIdle
  /\ btnDisabled = [connect |-> FALSE, disconnect |-> TRUE, mic |-> TRUE]

(* The variables of the SPA. *)
spaVars == <<codecVars, playVars, capVars>>

(* The SPA at rest. *)
SpaOff == CodecOff /\ PlayOff /\ CapOff

vars == <<bridgeVars, spaVars>>

config == <<enableGeminiBridge, geminiApiKey>>

Ev(kind, data) == [kind |-> kind, data |-> data]

Init ==
  /\ enableGeminiBridge \in BOOLEAN
  /\ geminiApiKey \in {"", "key"}
  /\ client = "NONE"
  /\ geminiWs = "NONE"
  /\ registered = FALSE
  /\ down = <<>>
  /\ up = <<>>
  /\ upConnections = 0
  /\ upEnd = "none"
  /\ lastEv = Ev("init", Garbage)
  /\ nEv = 0
  /\ SpaOff

(* Every action handles one event. *)
Step(kind, data) ==
  /\ nEv < MaxEvents
  /\ nEv' = nEv + 1
  /\ lastEv' = Ev(kind, data)
  /\ UNCHANGED config
  /\ UNCHANGED spaVars

(* ------------------------------------------------------------------ *)
(* wss.on("connection")                                                *)
(* ------------------------------------------------------------------ *)

(* Variant of Connection without the return statements of lines 174 and    *)
(* 179: a rejected connection goes on to open the upstream.                *)
ConnectionNoReturn ==
  /\ client = "NONE"
  /\ Step("connection", Garbage)
  /\ IF ~enableGeminiBridge
       THEN /\ down' = closeLog(sendJson(down, "OPEN",
                         [type |-> "error", message |-> "Gemini bridge is disabled."]),
                         "OPEN", 1013, "Gemini bridge disabled")
            /\ client' = closeState("OPEN")
       ELSE IF ~Truthy(geminiApiKey)
       THEN /\ down' = closeLog(sendJson(down, "OPEN",
                         [type |-> "error", message |-> "GEMINI_API_KEY is not configured."]),
                         "OPEN", 1013, "Missing API key")
            /\ client' = closeState("OPEN")
       ELSE /\ client' = "OPEN"
            /\ UNCHANGED down
  /\ geminiWs' = "CONNECTING"
  /\ upConnections' = upConnections + 1
  /\ registered' = TRUE
  /\ UNCHANGED <<up, upEnd>>

Connection ==
  /\ client = "NONE"
  /\ Step("connection", Garbage)
  /\ IF ~enableGeminiBridge
       THEN /\ down' = closeLog(sendJson(down, "OPEN",
                         [type |-> "error", message |-> "Gemini bridge is disabled."]),
                         "OPEN", 1013, "Gemini bridge disabled")
            /\ client' = closeState("OPEN")
            /\ UNCHANGED <<geminiWs, registered, upConnections>>
       ELSE IF ~Truthy(geminiApiKey)
       THEN /\ down' = closeLog(sendJson(down, "OPEN",
                         [type |-> "error", message |-> "GEMINI_API_KEY is not configured."]),
                         "OPEN", 1013, "Missing API key")
            /\ client' = closeState("OPEN")
            /\ UNCHANGED <<geminiWs, registered, upConnections>>
       ELSE /\ client' = "OPEN"
            /\ geminiWs' = "CONNECTING"
            /\ upConnections' = upConnections + 1
            /\ registered' = TRUE
            /\ UNCHANGED down
  /\ UNCHANGED <<up, upEnd>>

(* ------------------------------------------------------------------ *)
(* Upstream socket events                                              *)
(* ------------------------------------------------------------------ *)

(* Variant of GeminiOpen that announces readiness at transport open. *)
GeminiOpenReady ==
  /\ registered
  /\ geminiWs = "CONNECTING"
  /\ Step("geminiOpen", Garbage)
  /\ geminiWs' = "OPEN"
  /\ up' = sendJson(up, "OPEN", buildGeminiSetup)
  /\ down' = sendJson(sendJson(down, client, [type |-> "status", status |-> "gemini_connected"]),
                      client, [type |-> "ready"])
  /\ UNCHANGED <<client, registered, upConnections, upEnd>>

(* Variant of GeminiOpen that sends no setup frame. *)
GeminiOpenNoSetup ==
  /\ registered
  /\ geminiWs = "CONNECTING"
  /\ Step("geminiOpen", Garbage)
  /\ geminiWs' = "OPEN"
  /\ down' = sendJson(down, client, [type |-> "status", status |-> "gemini_connected"])
  /\ UNCHANGED <<client, registered, up, upConnections, upEnd>>

(* geminiWs.on("open"): the socket becomes OPEN and the handler runs in    *)
(* the same turn.                                                          *)
GeminiOpen ==
  /\ registered
  /\ geminiWs = "CONNECTING"
  /\ Step("geminiOpen", Garbage)
  /\ geminiWs' = "OPEN"
  /\ up' = sendJson(up, "OPEN", buildGeminiSetup)
  /\ down' = sendJson(down, client, [type |-> "status", status |-> "gemini_connected"])
  /\ UNCHANGED <<client, registered, upConnections, upEnd>>

(* What geminiWs.on("message") sends downstream for wire data `data`. *)
GeminiMessageDown(log, rs, data) ==
  LET message == parseJson(data)
  IN  IF message = null
        THEN log
        ELSE LET afterReady ==
                   IF hasOwnProperty(message, "setupComplete")
                     THEN sendJson(log, rs, [type |-> "ready"])
                     ELSE log
             IN  sendJson(afterReady, rs, [type |-> "gemini", message |-> message])

(* geminiWs.on("message"): frames arrive while the socket is OPEN, and     *)
(* until the closing handshake ends while it is CLOSING.                   *)
GeminiMessage(data) ==
  /\ registered
  /\ geminiWs \in {"OPEN", "CLOSING"}
  /\ upEnd # "terminate"
  /\ Step("geminiMessage", data)
  /\ down' = GeminiMessageDown(down, client, data)
  /\ UNCHANGED <<client, geminiWs, registered, up, upConnections, upEnd>>

(* The upstream sent a close frame: the socket is CLOSING until the        *)
(* transport ends; no handler of the bridge runs.                          *)
GeminiPeerClosing ==
  /\ registered
  /\ geminiWs = "OPEN"
  /\ Step("geminiPeerClosing", Garbage)
  /\ geminiWs' = "CLOSING"
  /\ UNCHANGED <<client, registered, down, up, upConnections, upEnd>>

(* geminiWs.on("error"): a failed handshake or a transport error; the      *)
(* socket is CLOSING when the handler runs.                                *)
GeminiError ==
  /\ registered
  /\ geminiWs \in {"CONNECTING", "OPEN", "CLOSING"}
  /\ Step("geminiError", Garbage)
  /\ geminiWs' = "CLOSING"
  /\ down' = sendJson(down, client, [type |-> "error", message |-> "Gemini upstream error."])
  /\ UNCHANGED <<client, registered, up, upConnections, upEnd>>

(* Variant of GeminiClose that closes the downstream before it sends the   *)
(* status frame.                                                           *)
GeminiCloseFirst(code, reason) ==
  /\ registered
  /\ geminiWs \in {"OPEN", "CLOSING"}
  /\ Step("geminiClose", [code |-> code, reason |-> reason])
  /\ geminiWs' = "CLOSED"
  /\ down' = sendJson(closeLog(down, client, 1011, "Gemini upstream closed"),
                      closeState(client),
                      [type |-> "status", status |-> "gemini_closed",
                       code |-> code, reason |-> reason])
  /\ client' = closeState(client)
  /\ UNCHANGED <<registered, up, upConnections, upEnd>>

(* Variant of GeminiClose that reconnects to the upstream instead of       *)
(* closing the downstream.                                                 *)
GeminiCloseReconnect(code, reason) ==
  /\ registered
  /\ geminiWs \in {"OPEN", "CLOSING"}
  /\ Step("geminiClose", [code |-> code, reason |-> reason])
  /\ geminiWs' = "CONNECTING"
  /\ upConnections' = upConnections + 1
  /\ down' = sendJson(down, client,
                 [type |-> "status", status |-> "gemini_closed",
                  code |-> code, reason |-> reason])
  /\ UNCHANGED <<client, registered, up, upEnd>>

(* Variant of GeminiClose that reports the close but leaves the            *)
(* downstream open.                                                        *)
GeminiCloseNoClose(code, reason) ==
  /\ registered
  /\ geminiWs \in {"OPEN", "CLOSING"}
  /\ Step("geminiClose", [code |-> code, reason |-> reason])
  /\ geminiWs' = "CLOSED"
  /\ down' = sendJson(down, client,
                 [type |-> "status", status |-> "gemini_closed",
                  code |-> code, reason |-> reason])
  /\ UNCHANGED <<client, registered, up, upConnections, upEnd>>

(* geminiWs.on("close"): the socket is CLOSED when the handler runs.  A    *)
(* handshake that fails emits error first, so close comes from OPEN or     *)
(* CLOSING.                                                                *)
GeminiClose(code, reason) ==
  /\ registered
  /\ geminiWs \in {"OPEN", "CLOSING"}
  /\ Step("geminiClose", [code |-> code, reason |-> reason])
  /\ geminiWs' = "CLOSED"
  /\ down' = closeLog(sendJson(down, client,
                 [type |-> "status", status |-> "gemini_closed",
                  code |-> code, reason |-> reason]),
               client, 1011, "Gemini upstream closed")
  /\ client' = closeState(client)
  /\ UNCHANGED <<registered, up, upConnections, upEnd>>

(* ------------------------------------------------------------------ *)
(* Downstream socket events                                            *)
(* ------------------------------------------------------------------ *)

(* Variant of Translate that passes an absent mimeType on instead of the   *)
(* default of line 240.                                                    *)
TranslateNoDefault(message) ==
  IF message.type = "audio"
    THEN [realtimeInput |->
           [audio |-> [data |-> message.data, mimeType |-> message.mimeType]]]
  ELSE IF message.type = "audioStreamEnd"
    THEN [realtimeInput |-> [audioStreamEnd |-> TRUE]]
  ELSE [clientContent |->
         [turns |-> IF message.data = undefined THEN "" ELSE message.data,
          turnComplete |-> TRUE]]

(* The frame client.on("message") forwards upstream for a parsed message   *)
(* of a forwarded type.                                                    *)
Translate(message) ==
  IF message.type = "audio"
    THEN [realtimeInput |->
           [audio |-> [data |-> message.data,
                       mimeType |-> IF message.mimeType = undefined
                                      THEN "audio/pcm;rate=16000"
                                      ELSE message.mimeType]]]
  ELSE IF message.type = "audioStreamEnd"
    THEN [realtimeInput |-> [audioStreamEnd |-> TRUE]]
  ELSE [clientContent |->
         [turns |-> IF message.data = undefined THEN "" ELSE message.data,
          turnComplete |-> TRUE]]

(* The handler returns without a reply downstream. *)
NoReply == [none |-> TRUE]

(* Variant of Reply that checks the upstream readyState before the ping.   *)
ReplyReadyFirst(data, g) ==
  LET message == parseJson(data)
  IN  IF message = null \/ ~Truthy(message.type)
        THEN [type |-> "error", message |-> "Invalid client message."]
      ELSE IF g # "OPEN"
        THEN [type |-> "error", message |-> "Gemini upstream not ready."]
      ELSE IF message.type = "ping"
        THEN [type |-> "pong"]
      ELSE IF message.type = "audio"
        THEN IF ~Truthy(message.data)
               THEN [type |-> "error", message |-> "audio data missing."]
               ELSE NoReply
      ELSE IF message.type \in {"audioStreamEnd", "text"}
        THEN NoReply
      ELSE [type |-> "error", message |-> "Unknown message type: " \o message.type]

(* Variant of Reply without the check of message.data of line 232. *)
ReplyNoDataCheck(data, g) ==
  LET message == parseJson(data)
  IN  IF message = null \/ ~Truthy(message.type)
        THEN [type |-> "error", message |-> "Invalid client message."]
      ELSE IF message.type = "ping"
        THEN [type |-> "pong"]
      ELSE IF g # "OPEN"
        THEN [type |-> "error", message |-> "Gemini upstream not ready."]
      ELSE IF message.type \in {"audio", "audioStreamEnd", "text"}
        THEN NoReply
      ELSE [type |-> "error", message |-> "Unknown message type: " \o message.type]

(* Variant of Reply without the check of geminiWs.readyState of line 226.  *)
ReplyNoReadyCheck(data, g) ==
  LET message == parseJson(data)
  IN  IF message = null \/ ~Truthy(message.type)
        THEN [type |-> "error", message |-> "Invalid client message."]
      ELSE IF message.type = "ping"
        THEN [type |-> "pong"]
      ELSE IF message.type = "audio"
        THEN IF ~Truthy(message.data)
               THEN [type |-> "error", message |-> "audio data missing."]
               ELSE NoReply
      ELSE IF message.type \in {"audioStreamEnd", "text"}
        THEN NoReply
      ELSE [type |-> "error", message |-> "Unknown message type: " \o message.type]

(* Variant of Reply that treats every unknown type as a text turn. *)
ReplyUnknownAsText(data, g) ==
  LET message == parseJson(data)
  IN  IF message = null \/ ~Truthy(message.type)
        THEN [type |-> "error", message |-> "Invalid client message."]
      ELSE IF message.type = "ping"
        THEN [type |-> "pong"]
      ELSE IF g # "OPEN"
        THEN [type |-> "error", message |-> "Gemini upstream not ready."]
      ELSE IF message.type = "audio"
        THEN IF ~Truthy(message.data)
               THEN [type |-> "error", message |-> "audio data missing."]
               ELSE NoReply
      ELSE NoReply

(* The reply client.on("message") sends downstream for wire data `data`    *)
(* when the upstream readyState is g; NoReply when it sends none.          *)
Reply(data, g) ==
  LET message == parseJson(data)
  IN  IF message = null \/ ~Truthy(message.type)
        THEN [type |-> "error", message |-> "Invalid client message."]
      ELSE IF message.type = "ping"
        THEN [type |-> "pong"]
      ELSE IF g # "OPEN"
        THEN [type |-> "error", message |-> "Gemini upstream not ready."]
      ELSE IF message.type = "audio"
        THEN IF ~Truthy(message.data)
               THEN [type |-> "error", message |-> "audio data missing."]
               ELSE NoReply
      ELSE IF message.type \in {"audioStreamEnd", "text"}
        THEN NoReply
      ELSE [type |-> "error", message |-> "Unknown message type: " \o message.type]

(* client.on("message") forwards the message upstream: it sends no reply   *)
(* and the upstream is OPEN.                                               *)
Forwards(data, g) == Reply(data, g) = NoReply

(* client.on("message"): frames arrive while the downstream is OPEN, and   *)
(* until the closing handshake ends while it is CLOSING.  A rejected       *)
(* connection has no message handler.                                      *)
ClientMessage(data) ==
  /\ client \in {"OPEN", "CLOSING"}
  /\ Step("clientMessage", data)
  /\ IF ~registered
       THEN UNCHANGED <<down, up>>
     ELSE IF Forwards(data, geminiWs)
       THEN /\ up' = sendJson(up, geminiWs, Translate(parseJson(data)))
            /\ UNCHANGED down
       ELSE /\ down' = sendJson(down, client, Reply(data, geminiWs))
            /\ UNCHANGED up
  /\ UNCHANGED <<client, geminiWs, registered, upConnections, upEnd>>

(* Variant of ClientClose that leaves the upstream alone. *)
ClientCloseNoPropagate ==
  /\ client \in {"OPEN", "CLOSING"}
  /\ Step("clientClose", Garbage)
  /\ client' = "CLOSED"
  /\ UNCHANGED <<geminiWs, upEnd, registered, down, up, upConnections>>

(* client.on("close"): close(1000) on an OPEN upstream, terminate()        *)
(* otherwise.  terminate() aborts a handshake in progress (the socket is   *)
(* CLOSING until its error and close events) and destroys the transport    *)
(* of a CLOSING socket.                                                    *)
ClientClose ==
  /\ client \in {"OPEN", "CLOSING"}
  /\ Step("clientClose", Garbage)
  /\ client' = "CLOSED"
  /\ IF ~registered
       THEN UNCHANGED <<geminiWs, upEnd>>
     ELSE IF geminiWs = "OPEN"
       THEN /\ geminiWs' = closeState(geminiWs)
            /\ upEnd' = "close"
       ELSE /\ geminiWs' = IF geminiWs = "CONNECTING" THEN "CLOSING" ELSE geminiWs
            /\ upEnd' = IF upEnd = "none" THEN "terminate" ELSE upEnd
  /\ UNCHANGED <<registered, down, up, upConnections>>

(* client.on("error"): logs only. *)
ClientError ==
  /\ registered
  /\ client \in {"OPEN", "CLOSING"}
  /\ Step("clientError", Garbage)
  /\ UNCHANGED <<client, geminiWs, registered, down, up, upConnections, upEnd>>

Next ==
  \/ Connection
  \/ GeminiOpen
  \/ \E data \in GeminiData : GeminiMessage(data)
  \/ GeminiPeerClosing
  \/ GeminiError
  \/ \E ce \in CloseEvents : GeminiClose(ce.code, ce.reason)
  \/ \E data \in ClientData : ClientMessage(data)
  \/ ClientClose
  \/ ClientError

Spec == Init /\ [][Next]_vars

(* ------------------------------------------------------------------ *)
(* Reading the logs and the last event                                 *)
(* ------------------------------------------------------------------ *)

(* Entry e of `down` is a frame of type t. *)
IsDown(e, t) == e.op = "send" /\ e.payload.type = t

(* Entry e of `down` is the error frame with message m. *)
IsError(e, m) == IsDown(e, "error") /\ e.payload.message = m

(* Entry e of `down` is a close call with code c. *)
IsClose(e, c) == e.op = "close" /\ e.code = c

(* Entry e of `up` is a setup, a realtimeInput audio frame. *)
IsSetup(e) == "setup" \in DOMAIN e.payload
IsAudioUp(e) ==
  /\ "realtimeInput" \in DOMAIN e.payload
  /\ "audio" \in DOMAIN e.payload.realtimeInput

(* Number of entries of log that satisfy P. *)
Count(log, P(_)) == Cardinality({i \in 1..Len(log) : P(log[i])})

IsReady(e) == IsDown(e, "ready")
IsGeminiClosed(e) == IsDown(e, "status") /\ e.payload.status = "gemini_closed"

(* Event ev is a client frame that parses to an object of type t. *)
IsClientMsg(ev, t) ==
  /\ ev.kind = "clientMessage"
  /\ ev.data.json
  /\ ev.data.value # null
  /\ ev.data.value.type = t

(* Event ev is a client frame that is not a ping. *)
IsNonPing(ev) == ev.kind = "clientMessage" /\ ~IsClientMsg(ev, "ping")

(* Event ev is an upstream frame that parses to an object with setupComplete. *)
IsSetupComplete(ev) ==
  /\ ev.kind = "geminiMessage"
  /\ ev.data.json
  /\ ev.data.value # null
  /\ hasOwnProperty(ev.data.value, "setupComplete")

Last(log) == log[Len(log)]

(* ------------------------------------------------------------------ *)
(* Claims                                                              *)
(* ------------------------------------------------------------------ *)

(* C1: whenever a realtimeInput audio frame has been sent upstream, a      *)
(* ready frame has already been sent downstream in the session.  (`down`   *)
(* only grows, so an audio frame sent before the ready frame is seen in    *)
(* the state right after it.)                                              *)
C1_AudioOnlyAfterReady ==
  Count(up, IsAudioUp) > 0 => Count(down, IsReady) > 0

(* C2: when the upstream close event (code c, reason r) is handled while   *)
(* the downstream is OPEN, the bridge appends to the downstream exactly    *)
(* the status frame gemini_closed with c and r and then the close call     *)
(* with code 1011, nothing in between, and that status frame is the only   *)
(* one of the session.                                                     *)
C2_ClosedStatusThenClose ==
  [][ (lastEv'.kind = "geminiClose" /\ client = "OPEN") =>
        /\ down' = down \o
             << Sent([type |-> "status", status |-> "gemini_closed",
                      code |-> lastEv'.data.code, reason |-> lastEv'.data.reason]),
                Closed(1011, "Gemini upstream closed") >>
        /\ Count(down', IsGeminiClosed) = 1
        /\ client' = "CLOSING" ]_vars

C2_Witness ==
  /\ lastEv.kind = "geminiClose"
  /\ lastEv.data = [code |-> 1000, reason |-> "done"]
  /\ Len(down) >= 3
  /\ IsGeminiClosed(down[Len(down) - 1])
  /\ down[Len(down) - 1].payload.code = 1000
  /\ down[Len(down) - 1].payload.reason = "done"
  /\ IsClose(Last(down), 1011)

(* C3: if the bridge is disabled or no credential is configured, then at   *)
(* every moment after the connection was accepted the downstream has got   *)
(* exactly one error frame followed by the close call with code 1013 and   *)
(* nothing else, and no upstream socket was constructed.                   *)
C3_Rejected ==
  (client # "NONE" /\ (~enableGeminiBridge \/ geminiApiKey = "")) =>
    /\ Len(down) = 2
    /\ IsError(down[1], IF ~enableGeminiBridge
                          THEN "Gemini bridge is disabled."
                          ELSE "GEMINI_API_KEY is not configured.")
    /\ IsClose(down[2], 1013)
    /\ upConnections = 0
    /\ geminiWs = "NONE"
    /\ up = <<>>
    /\ client \in {"CLOSING", "CLOSED"}

C3_Witness ==
  /\ ~enableGeminiBridge
  /\ lastEv.kind = "clientMessage"
  /\ Len(down) = 2
  /\ IsClose(down[2], 1013)
  /\ upConnections = 0

(* A step that handles a ping appends exactly one pong to the downstream   *)
(* and touches neither the upstream log nor the upstream socket.           *)
PingAnswered ==
  /\ down' = Append(down, Sent([type |-> "pong"]))
  /\ up' = up
  /\ geminiWs' = geminiWs
  /\ upConnections' = upConnections
  /\ upEnd' = upEnd

(* C4 as stated: a ping received in any session state yields exactly one   *)
(* pong downstream and no upstream interaction.                            *)
C4_PingAnyState ==
  [][ IsClientMsg(lastEv', "ping") => PingAnswered ]_vars

(* C4 amended: a ping received while the downstream connection is OPEN     *)
(* (accepted, and not yet closed by the bridge) yields exactly one pong    *)
(* downstream and no upstream interaction, whatever the upstream state.    *)
C4_PingWhileDownstreamOpen ==
  [][ (IsClientMsg(lastEv', "ping") /\ client = "OPEN") => PingAnswered ]_vars

C4_Witness ==
  /\ IsClientMsg(lastEv, "ping")
  /\ geminiWs = "CONNECTING"
  /\ client = "OPEN"
  /\ down # <<>>
  /\ IsDown(Last(down), "pong")

(* C5: an audio frame without data that arrives while both connections     *)
(* are OPEN is answered with the error frame "audio data missing.",        *)
(* nothing is sent upstream, and both connections stay OPEN.               *)
C5_AudioDataMissing ==
  [][ ( /\ IsClientMsg(lastEv', "audio")
        /\ lastEv'.data.value.data = undefined
        /\ client = "OPEN"
        /\ geminiWs = "OPEN" ) =>
        /\ down' = Append(down, Sent([type |-> "error", message |-> "audio data missing."]))
        /\ up' = up
        /\ client' = "OPEN"
        /\ geminiWs' = "OPEN" ]_vars

C5_Witness ==
  /\ IsClientMsg(lastEv, "audio")
  /\ lastEv.data.value.data = undefined
  /\ client = "OPEN"
  /\ geminiWs = "OPEN"
  /\ down # <<>>
  /\ IsError(Last(down), "audio data missing.")

(* C6: with the downstream OPEN, an upstream frame that has setupComplete  *)
(* makes the bridge send ready and then the gemini envelope of that frame, *)
(* and no other step (the upstream open event included) adds a ready       *)
(* frame.                                                                  *)
C6_ReadyOnSetupComplete ==
  [][ IF IsSetupComplete(lastEv') /\ client = "OPEN"
        THEN down' = down \o
               << Sent([type |-> "ready"]),
                  Sent([type |-> "gemini", message |-> lastEv'.data.value]) >>
        ELSE Count(down', IsReady) = Count(down, IsReady) ]_vars

C6_Witness ==
  /\ IsSetupComplete(lastEv)
  /\ Len(down) >= 3
  /\ IsDown(down[1], "status")
  /\ IsReady(down[Len(down) - 1])
  /\ IsDown(Last(down), "gemini")
  /\ Count(down, IsReady) = 1

(* C7: the upstream open event sends the setup frame as the first frame    *)
(* of the upstream, no other step sends a setup frame, and so every        *)
(* realtimeInput or clientContent frame comes after the one setup frame.   *)
C7_SetupFirstAndOnce ==
  [][ /\ IF lastEv'.kind = "geminiOpen"
           THEN up = <<>> /\ up' = <<Sent(buildGeminiSetup)>>
           ELSE Count(up', IsSetup) = Count(up, IsSetup)
      /\ Count(up', IsSetup) <= 1
      /\ up' # <<>> => IsSetup(up'[1]) ]_vars

C7_Witness ==
  /\ Len(up) >= 3
  /\ IsSetup(up[1])
  /\ Count(up, IsSetup) = 1
  /\ IsAudioUp(up[2])
  /\ "clientContent" \in DOMAIN up[3].payload

(* C8: at most one upstream socket is constructed for the connection, it   *)
(* is constructed by the connection handler, and once the upstream is      *)
(* CLOSING or CLOSED it is never connecting or open again.                 *)
C8_OneUpstream ==
  [][ /\ upConnections' <= 1
      /\ lastEv'.kind # "connection" => upConnections' = upConnections
      /\ geminiWs \in {"CLOSING", "CLOSED"} => geminiWs' \in {"CLOSING", "CLOSED"} ]_vars

C8_Witness ==
  /\ upConnections = 1
  /\ geminiWs = "CLOSED"
  /\ lastEv.kind = "clientMessage"
  /\ Count(down, IsGeminiClosed) = 1

UnknownAnswered(t) ==
  /\ down' = Append(down, Sent([type |-> "error",
                                message |-> "Unknown message type: " \o t]))
  /\ up' = up
  /\ client' = client
  /\ geminiWs' = geminiWs

(* Event ev is a client frame with a non-empty type that is not known. *)
IsUnknownType(ev) ==
  /\ ev.kind = "clientMessage"
  /\ ev.data.json
  /\ ev.data.value # null
  /\ Truthy(ev.data.value.type)
  /\ ev.data.value.type \notin KnownTypes

(* C10 as stated: a frame of unknown type is answered, in every session    *)
(* state (here: in every state in which the downstream is OPEN, so that    *)
(* an answer can be sent at all), with the error frame naming the type.    *)
C10_UnknownTypeAnyState ==
  [][ (IsUnknownType(lastEv') /\ client = "OPEN") =>
        UnknownAnswered(lastEv'.data.value.type) ]_vars

(* C10 amended: a frame of unknown type that arrives while both the        *)
(* downstream and the upstream transport are OPEN is answered with the     *)
(* error frame naming the type; nothing is sent upstream and no            *)
(* connection is closed.                                                   *)
C10_UnknownTypeWhileOpen ==
  [][ (IsUnknownType(lastEv') /\ client = "OPEN" /\ geminiWs = "OPEN") =>
        UnknownAnswered(lastEv'.data.value.type) ]_vars

C10_Witness ==
  /\ IsUnknownType(lastEv)
  /\ client = "OPEN"
  /\ geminiWs = "OPEN"
  /\ down # <<>>
  /\ IsError(Last(down), "Unknown message type: foo")

(* Entry e of `down` is a gemini envelope. *)
IsGemini(e) == IsDown(e, "gemini")

(* C11: with the downstream OPEN, every upstream frame that is JSON text   *)
(* appends exactly one gemini envelope carrying the parsed frame to the    *)
(* downstream (so envelopes are in arrival order), and a frame that is     *)
(* not JSON text sends nothing and closes nothing.                         *)
C11_EveryParsedFrameForwarded ==
  [][ (lastEv'.kind = "geminiMessage" /\ client = "OPEN") =>
        IF lastEv'.data.json
          THEN /\ down' # <<>>
               /\ IsGemini(Last(down'))
               /\ Last(down').payload.message = lastEv'.data.value
               /\ Count(down', IsGemini) = Count(down, IsGemini) + 1
          ELSE /\ down' = down
               /\ client' = client
               /\ geminiWs' = geminiWs ]_vars

(* The upstream frame expected for accepted client message m. *)
ExpectedUpstream(m) ==
  IF m.type = "audio"
    THEN [realtimeInput |->
           [audio |-> [data |-> m.data,
                       mimeType |-> IF m.mimeType = undefined
                                      THEN "audio/pcm;rate=16000"
                                      ELSE m.mimeType]]]
  ELSE IF m.type = "audioStreamEnd"
    THEN [realtimeInput |-> [audioStreamEnd |-> TRUE]]
  ELSE [clientContent |-> [turns |-> m.data, turnComplete |-> TRUE]]

(* Event ev is an accepted client frame: audio with data, audioStreamEnd   *)
(* or text.                                                                *)
IsAccepted(ev) ==
  \/ IsClientMsg(ev, "audio") /\ Truthy(ev.data.value.data)
  \/ IsClientMsg(ev, "audioStreamEnd")
  \/ IsClientMsg(ev, "text")

(* C12: while the upstream is OPEN, an accepted client frame appends       *)
(* exactly one frame to the upstream, the translation of that frame (same  *)
(* data, declared mimeType or the default audio/pcm;rate=16000,            *)
(* audioStreamEnd true, turns as given with turnComplete true), and sends  *)
(* nothing downstream.                                                     *)
C12_AcceptedFrameTranslated ==
  [][ (IsAccepted(lastEv') /\ geminiWs = "OPEN") =>
        /\ up' = Append(up, Sent(ExpectedUpstream(lastEv'.data.value)))
        /\ down' = down ]_vars

C12_Witness ==
  /\ IsClientMsg(lastEv, "audio")
  /\ lastEv.data.value.mimeType = undefined
  /\ geminiWs = "OPEN"
  /\ Len(up) >= 2
  /\ IsAudioUp(Last(up))
  /\ Last(up).payload.realtimeInput.audio.data = "AAAA"
  /\ Last(up).payload.realtimeInput.audio.mimeType = "audio/pcm;rate=16000"

(* ------------------------------------------------------------------ *)
(* Teardown: the events the transport guarantees                       *)
(* ------------------------------------------------------------------ *)

(* Events kept in reserve for the teardown of the two sockets. *)
TeardownEvents == 2

(* A socket that is CLOSING gets its close event: the closing handshake    *)
(* ends, or the transport is destroyed (an error, terminate(), the close   *)
(* timer of ws).                                                           *)
UpstreamTeardown ==
  /\ geminiWs = "CLOSING"
  /\ \E ce \in CloseEvents : GeminiClose(ce.code, ce.reason)

DownstreamTeardown ==
  /\ client = "CLOSING"
  /\ ClientClose

(* The session with its teardown: new events stop TeardownEvents before    *)
(* the bound, so that the close events that are due can still be handled.  *)
NextLive ==
  \/ nEv < MaxEvents - TeardownEvents /\ Next
  \/ UpstreamTeardown
  \/ DownstreamTeardown

SpecLive ==
  /\ Init
  /\ [][NextLive]_vars
  /\ WF_vars(UpstreamTeardown)
  /\ WF_vars(DownstreamTeardown)

(* The bridge has called close(1011) on the downstream. *)
ClosedByBridge == \E i \in 1..Len(down) : IsClose(down[i], 1011)

(* C13: an upstream error handled while the downstream is OPEN sends the   *)
(* error frame downstream and opens no new upstream, and afterwards the    *)
(* downstream does not stay open: the bridge closes it with 1011 (in the   *)
(* close handler that follows the error), unless the client has closed it  *)
(* first.                                                                  *)
C13_ErrorThenClosed ==
  /\ [][ (lastEv'.kind = "geminiError" /\ client = "OPEN") =>
           /\ down' = Append(down, Sent([type |-> "error",
                                         message |-> "Gemini upstream error."]))
           /\ upConnections' = upConnections
           /\ geminiWs' = "CLOSING" ]_vars
  /\ (lastEv.kind = "geminiError" /\ client = "OPEN")
       ~> (ClosedByBridge \/ client = "CLOSED")

C13_Witness ==
  /\ lastEv.kind = "geminiClose"
  /\ Len(down) >= 3
  /\ IsError(down[Len(down) - 2], "Gemini upstream error.")
  /\ IsGeminiClosed(down[Len(down) - 1])
  /\ IsClose(Last(down), 1011)
  /\ upConnections = 1

(* C14: the downstream close event makes the bridge end the upstream,      *)
(* with close(1000) when it is OPEN and with terminate() otherwise; the    *)
(* upstream close event makes the bridge close an OPEN downstream with     *)
(* 1011; once a side is CLOSED the other side becomes CLOSED too; and an   *)
(* upstream that has left OPEN, or whose downstream is CLOSED, is never    *)
(* OPEN or connecting again.                                               *)
C14_ClosePropagates ==
  /\ [][ /\ (lastEv'.kind = "clientClose" /\ registered) =>
              /\ upEnd' = IF geminiWs = "OPEN" THEN "close" ELSE "terminate"
              /\ geminiWs' \in {"CLOSING", "CLOSED"}
         /\ (lastEv'.kind = "geminiClose" /\ client = "OPEN") =>
              /\ IsClose(Last(down'), 1011)
              /\ client' = "CLOSING"
         /\ (geminiWs \in {"CLOSING", "CLOSED"} \/ client = "CLOSED") =>
              /\ geminiWs' \notin {"CONNECTING", "OPEN"}
              /\ client' # "OPEN" \/ client = "OPEN" ]_vars
  /\ (client = "CLOSED" /\ registered) ~> (geminiWs = "CLOSED")
  /\ (geminiWs = "CLOSED") ~> (client = "CLOSED")

C14_Witness ==
  /\ lastEv.kind = "geminiClose"
  /\ upEnd = "close"
  /\ client = "CLOSED"
  /\ geminiWs = "CLOSED"
  /\ Count(down, IsReady) = 1

(* ------------------------------------------------------------------ *)
(* The SPA: PCM codec                                                  *)
(* ------------------------------------------------------------------ *)

(* The bridge at rest, for the specifications of the SPA. *)
BridgeOff ==
  /\ enableGeminiBridge = FALSE
  /\ geminiApiKey = ""
  /\ client = "NONE"
  /\ geminiWs = "NONE"
  /\ registered = FALSE
  /\ down = <<>>
  /\ up = <<>>
  /\ upConnections = 0
  /\ upEnd = "none"
  /\ lastEv = Ev("init", Garbage)
  /\ nEv = 0

(* Largest number of samples of a payload. *)
MaxPayloadSamples == 2

(* The byte values of the payloads of the model. *)
ByteValues == {0, 1, 127, 128, 255}

(* The sequences over S of length n, and of length at most n. *)
RECURSIVE SeqsOfLen(_, _)
SeqsOfLen(S, n) ==
  IF n = 0 THEN { <<>> }
  ELSE { Append(q, x) : q \in SeqsOfLen(S, n - 1), x \in S }

SeqsUpTo(S, n) == UNION { SeqsOfLen(S, k) : k \in 0..n }

(* A base64 text is a sequence of digits 0..63 and padding characters. *)
Pad == 64

(* btoa: the base64 text of a byte sequence. *)
RECURSIVE btoa(_)
btoa(bytes) ==
  IF Len(bytes) = 0 THEN <<>>
  ELSE IF Len(bytes) = 1 THEN
    << bytes[1] \div 4, (bytes[1] % 4) * 16, Pad, Pad >>
  ELSE IF Len(bytes) = 2 THEN
    << bytes[1] \div 4,
       (bytes[1] % 4) * 16 + bytes[2] \div 16,
       (bytes[2] % 16) * 4,
       Pad >>
  ELSE
    << bytes[1] \div 4,
       (bytes[1] % 4) * 16 + bytes[2] \div 16,
       (bytes[2] % 16) * 4 + bytes[3] \div 64,
       bytes[3] % 64 >> \o btoa(SubSeq(bytes, 4, Len(bytes)))

(* atob: the byte sequence of a base64 text. *)
RECURSIVE atob(_)
atob(text) ==
  IF Len(text) = 0 THEN <<>>
  ELSE
    LET d1 == text[1]
        d2 == text[2]
        d3 == text[3]
        d4 == text[4]
        b1 == d1 * 4 + d2 \div 16
        b2 == (d2 % 16) * 16 + d3 \div 4
        b3 == (d3 % 4) * 64 + d4
        rest == atob(SubSeq(text, 5, Len(text)))
    IN  IF d3 = Pad THEN <<b1>>
        ELSE IF d4 = Pad THEN <<b1, b2>>
        ELSE <<b1, b2, b3>> \o rest

(* DataView.getInt16(offset, true): the little-endian signed 16-bit value  *)
(* of bytes lo, hi.                                                        *)
getInt16(lo, hi) ==
  LET u == lo + 256 * hi
  IN  IF u >= 32768 THEN u - 65536 ELSE u

(* Variant of decodeBase64ToInt16 that reads the samples big-endian. *)
decodeBigEndian(text) ==
  LET bytes == atob(text)
  IN  [i \in 1..(Len(bytes) \div 2) |-> getInt16(bytes[2 * i], bytes[2 * i - 1])]

(* decodeBase64ToInt16: an Int16Array of binary.length / 2 values read     *)
(* little-endian from the decoded bytes.                                   *)
decodeBase64ToInt16(text) ==
  LET bytes == atob(text)
  IN  [i \in 1..(Len(bytes) \div 2) |-> getInt16(bytes[2 * i - 1], bytes[2 * i])]

(* DataView.setInt16(offset, v, true): the two bytes of v, low byte first. *)
setInt16(v) ==
  LET u == (v + 65536) % 65536
  IN  << u % 256, u \div 256 >>

(* The bytes int16ToBase64 writes for an Int16Array. *)
RECURSIVE int16Bytes(_)
int16Bytes(data) ==
  IF Len(data) = 0 THEN <<>>
  ELSE setInt16(data[1]) \o int16Bytes(SubSeq(data, 2, Len(data)))

(* int16ToBase64 *)
int16ToBase64(data) == btoa(int16Bytes(data))

(* The PCM16 payloads of the model: even byte length, up to                *)
(* MaxPayloadSamples samples.                                              *)
Payloads ==
  UNION { SeqsOfLen(ByteValues, 2 * n) : n \in 0..MaxPayloadSamples }

InitBase64 ==
  /\ BridgeOff
  /\ codecPc = "input"
  /\ base64 \in { btoa(bytes) : bytes \in Payloads }
  /\ block = [buffer |-> <<>>, sampleRate |-> 0]
  /\ pcm16 = <<>>
  /\ encoded = <<>>
  /\ PlayOff
  /\ CapOff

(* playGeminiAudio decodes the payload. *)
Decode ==
  /\ codecPc = "input"
  /\ codecPc' = "decoded"
  /\ pcm16' = decodeBase64ToInt16(base64)
  /\ UNCHANGED <<base64, block, encoded, bridgeVars, playVars, capVars>>

(* The decoded samples are encoded again. *)
Encode ==
  /\ codecPc = "decoded"
  /\ codecPc' = "encoded"
  /\ encoded' = int16ToBase64(pcm16)
  /\ UNCHANGED <<base64, block, pcm16, bridgeVars, playVars, capVars>>

NextBase64 == Decode \/ Encode

SpecBase64 == InitBase64 /\ [][NextBase64]_vars

(* C20: a payload of 2n bytes decodes to exactly n samples, and encoding   *)
(* the decoded samples gives back the same bytes (and so the same base64   *)
(* text).                                                                  *)
C20_RoundTrip ==
  /\ codecPc \in {"decoded", "encoded"} => 2 * Len(pcm16) = Len(atob(base64))
  /\ codecPc = "encoded" =>
       /\ atob(encoded) = atob(base64)
       /\ encoded = base64

C20_Witness ==
  /\ codecPc = "encoded"
  /\ atob(base64) = <<1, 128, 255, 127>>
  /\ pcm16 = <<-32767, 32767>>
  /\ atob(encoded) = <<1, 128, 255, 127>>

(* ------------------------------------------------------------------ *)
(* The SPA: downsampleTo16k                                            *)
(* ------------------------------------------------------------------ *)

(* Largest number of samples of a capture block. *)
MaxBlock == 4

(* geminiInputSampleRate, as /config delivers it. *)
geminiInputSampleRate == 16000

(* A float sample is the fraction n / SampleDen; the model takes the       *)
(* numerators -MaxNum..MaxNum, so that samples outside [-1, 1] occur.      *)
(* With these values the double arithmetic of the source is exact          *)
(* wherever a result lies on an integer.                                   *)
SampleDen == 2
MaxNum == 3
Samples == (0 - MaxNum)..MaxNum

(* The native rates of the model. *)
NativeRates == {16000, 44100, 48000}

(* Math.round(a / b) for b > 0: the nearest integer, halves upwards. *)
Round(a, b) == (2 * a + b) \div (2 * b)

(* The integer part of a / b for b > 0: what storing the number a / b in   *)
(* an Int16Array keeps (ToInt16 drops the fraction).                       *)
Trunc(a, b) == IF a >= 0 THEN a \div b ELSE 0 - ((0 - a) \div b)

(* ToInt16 of an integer. *)
ToInt16(x) == ((x + 32768) % 65536) - 32768

(* Math.max(-1, Math.min(1, a / b)) as a fraction over b, b > 0. *)
Clamp(a, b) == IF a > b THEN b ELSE IF a < 0 - b THEN 0 - b ELSE a

(* s < 0 ? s * 0x8000 : s * 0x7fff for s = a / b, b > 0, as a numerator    *)
(* over b.                                                                 *)
Scale(a) == IF a < 0 THEN a * 32768 ELSE a * 32767

(* The value of result[i] after `result[i] = s < 0 ? ... : ...` where s    *)
(* is a / b clamped.                                                       *)
Quantize(a, b) == ToInt16(Trunc(Scale(Clamp(a, b)), b))

RECURSIVE SumSeq(_, _, _)
SumSeq(q, from, to) ==
  IF from > to THEN 0 ELSE q[from] + SumSeq(q, from + 1, to)

(* Math.round(buffer.length / ratio), ratio = sampleRate / 16000. *)
NewLength(len, sampleRate) == Round(len * geminiInputSampleRate, sampleRate)

(* Math.round(k * ratio): the index at which the window of output k        *)
(* starts (k counted from 0).                                              *)
WindowStart(k, sampleRate) == Round(k * sampleRate, geminiInputSampleRate)

Min(a, b) == IF a < b THEN a ELSE b
Max(a, b) == IF a > b THEN a ELSE b

(* downsampleTo16k: the Int16Array for buffer (numerators over SampleDen,  *)
(* indices from 1) captured at sampleRate.                                 *)
downsampleTo16k(buffer, sampleRate) ==
  IF sampleRate = geminiInputSampleRate
    THEN [i \in 1..Len(buffer) |-> Quantize(buffer[i], SampleDen)]
    ELSE [k \in 1..NewLength(Len(buffer), sampleRate) |->
            LET offsetBuffer == WindowStart(k - 1, sampleRate)
                nextOffsetBuffer == WindowStart(k, sampleRate)
                last == Min(nextOffsetBuffer, Len(buffer))
                accum == SumSeq(buffer, offsetBuffer + 1, last)
                count == Max(0, last - offsetBuffer)
            IN  Quantize(accum, Max(1, count) * SampleDen)]

(* The capture blocks of the model, of at most maxLen samples. *)
Blocks(maxLen) ==
  { [buffer |-> b, sampleRate |-> r] :
      b \in SeqsUpTo(Samples, maxLen), r \in NativeRates }

InitDownsample ==
  /\ BridgeOff
  /\ codecPc = "input"
  /\ block \in Blocks(MaxBlock)
  /\ base64 = <<>>
  /\ pcm16 = <<>>
  /\ encoded = <<>>
  /\ PlayOff
  /\ CapOff

(* The worklet handler resamples the block. *)
Downsample ==
  /\ codecPc = "input"
  /\ codecPc' = "resampled"
  /\ pcm16' = downsampleTo16k(block.buffer, block.sampleRate)
  /\ UNCHANGED <<base64, block, encoded, bridgeVars, playVars, capVars>>

(* The worklet handler encodes the resampled block. *)
EncodeBlock ==
  /\ codecPc = "resampled"
  /\ codecPc' = "encoded"
  /\ encoded' = int16ToBase64(pcm16)
  /\ UNCHANGED <<base64, block, pcm16, bridgeVars, playVars, capVars>>

NextDownsample == Downsample \/ EncodeBlock

SpecDownsample == InitDownsample /\ [][NextDownsample]_vars

(* The input indices (from 0) of the window of output k (from 1). *)
Window(k, len, sampleRate) ==
  { i \in 0..(len - 1) :
      WindowStart(k - 1, sampleRate) <= i /\ i < WindowStart(k, sampleRate) }

(* The average of the samples of window W of buffer, clamped, scaled to    *)
(* 16 bits and rounded to the nearest integer.                             *)
RoundedAverage(buffer, W) ==
  LET n == Cardinality(W)
      sum == SumSeq(buffer, 1 + CHOOSE i \in W : \A j \in W : i <= j,
                            1 + CHOOSE i \in W : \A j \in W : i >= j)
  IN  Round(Scale(Clamp(sum, n * SampleDen)), n * SampleDen)

(* The block was captured above the target rate and has been resampled. *)
Resampled == codecPc \in {"resampled", "encoded"} /\ block.sampleRate > geminiInputSampleRate

(* C19, the length: the result has round(len / (R / T)) samples. *)
C19_Length ==
  Resampled =>
    Len(pcm16) = Round(Len(block.buffer) * geminiInputSampleRate, block.sampleRate)

(* C19, the values: each sample is the rounded average of its window and   *)
(* lies in [-32768, 32767].                                                *)
C19_Values ==
  Resampled =>
    \A k \in 1..Len(pcm16) :
      LET W == Window(k, Len(block.buffer), block.sampleRate)
      IN  /\ W # {}
          /\ pcm16[k] = RoundedAverage(block.buffer, W)
          /\ pcm16[k] >= 0 - 32768
          /\ pcm16[k] <= 32767

(* C19, the windows: every input sample lies in exactly one window. *)
C19_Partition ==
  Resampled =>
    \A i \in 0..(Len(block.buffer) - 1) :
      Cardinality({ k \in 1..Len(pcm16) :
                      i \in Window(k, Len(block.buffer), block.sampleRate) }) = 1

(* C19: a block of len samples at a native rate R above the target rate T  *)
(* is resampled to exactly round(len / (R / T)) samples, each the rounded  *)
(* average of the input samples of its window, within [-32768, 32767],     *)
(* and every input sample belongs to exactly one window.                   *)
C19_Downsample == C19_Length /\ C19_Values /\ C19_Partition

(* ------------------------------------------------------------------ *)
(* The playback scheduler of the SPA                                   *)
(* ------------------------------------------------------------------ *)

(* The lead-ins of line 203, 0.2 s and 0.02 s, in units of 20 ms. *)
LeadInFirst == 10
LeadInNext == 1

(* Bounds: the calls of playGeminiAudio, the calls of stopGeminiPlayback,  *)
(* the audio parts of one frame, the clock.                                *)
MaxChunks == 2
MaxFlushes == 2
MaxParts == 2
MaxTime == 15

(* buffer.duration of the chunks of the model, and the advances of the     *)
(* clock between two steps.                                                *)
Durations == {2, 5}
ClockSteps == {5}

(* payload.message.serverContent of a frame of type gemini: the            *)
(* interrupted flag and the audio chunks of modelTurn.parts, each by the   *)
(* duration of its buffer.                                                 *)
ServerContents == [interrupted : BOOLEAN, parts : SeqsUpTo(Durations, MaxParts)]

(* What the scheduler leaves alone. *)
playRest == <<bridgeVars, codecVars, capVars>>

InitPlayback == BridgeOff /\ SpaOff

(* A call suspended at line 192 resumes in a microtask: before any other   *)
(* event is handled.                                                       *)
MicrotaskPending == \E i \in 1..Len(playCalls) : playCalls[i].wait = "micro"

(* ensureGeminiLivekitTrack up to its return or its await: whether         *)
(* geminiLivekitTrack is set afterwards, and how the caller waits (micro:  *)
(* the promise is already settled; publish: publishTrack is pending).      *)
ensureGeminiLivekitTrack(rm, track) ==
  IF ~rm THEN [track |-> track, wait |-> "micro"]
  ELSE IF ~track THEN [track |-> TRUE, wait |-> "publish"]
  ELSE [track |-> TRUE, wait |-> "micro"]

(* Lines 482-485: playGeminiAudio is called for each part, and each call   *)
(* runs to its await at line 192.  A call is recorded with the number of   *)
(* its chunk in the order of reception (n chunks came before the parts)    *)
(* and with the number of flushes that came before it (epoch).             *)
RECURSIVE playParts(_, _, _, _, _)
playParts(parts, track, calls, n, epoch) ==
  IF parts = <<>> THEN [track |-> track, calls |-> calls]
  ELSE LET e == ensureGeminiLivekitTrack(room, track)
       IN playParts(Tail(parts), e.track,
                    Append(calls, [duration |-> Head(parts), wait |-> e.wait,
                                   chunk |-> n + 1, epoch |-> epoch]),
                    n + 1, epoch)

(* Variant of stopGeminiPlayback that leaves the cursor where it is. *)
stopKeepCursor ==
  /\ sources' = [i \in 1..Len(sources) |->
                   IF i \in geminiPlaying
                   THEN [sources[i] EXCEPT !.state = "stopped", !.stopTime = currentTime]
                   ELSE sources[i]]
  /\ geminiPlaying' = {}
  /\ geminiPlaybackPrimed' = FALSE
  /\ geminiOutputTime' = geminiOutputTime
  /\ nFlush' = nFlush + 1

(* stopGeminiPlayback, lines 121-132. *)
stopGeminiPlayback ==
  /\ sources' = [i \in 1..Len(sources) |->
                   IF i \in geminiPlaying
                   THEN [sources[i] EXCEPT !.state = "stopped", !.stopTime = currentTime]
                   ELSE sources[i]]
  /\ geminiPlaying' = {}
  /\ geminiPlaybackPrimed' = FALSE
  /\ geminiOutputTime' = IF geminiAudioContext THEN currentTime ELSE 0
  /\ nFlush' = nFlush + 1

(* The message handler for a frame of type gemini, lines 467-490. *)
GeminiPayload(sc) ==
  /\ ~MicrotaskPending
  /\ nChunks + Len(sc.parts) <= MaxChunks
  /\ sc.interrupted => nFlush < MaxFlushes
  /\ IF sc.interrupted
       THEN stopGeminiPlayback
       ELSE UNCHANGED <<sources, geminiPlaying, geminiPlaybackPrimed, geminiOutputTime, nFlush>>
  /\ LET r == playParts(sc.parts, geminiLivekitTrack, playCalls, nChunks,
                         IF sc.interrupted THEN nFlush + 1 ELSE nFlush)
     IN /\ geminiLivekitTrack' = r.track
        /\ playCalls' = r.calls
  /\ geminiAudioContext' = (geminiAudioContext \/ sc.parts # <<>>)
  /\ nChunks' = nChunks + Len(sc.parts)
  /\ UNCHANGED <<currentTime, room, playRest>>

(* Line 203. *)
LeadIn(primed) == IF primed THEN LeadInNext ELSE LeadInFirst

(* Variant of StartAt that ignores the cursor. *)
StartAtNoCursor(now, primed, cursor) == now + LeadIn(primed)

(* Line 204: the start time of a buffer. *)
StartAt(now, primed, cursor) == Max(now + LeadIn(primed), cursor)

(* The first call that resumes in a microtask. *)
FirstMicro ==
  CHOOSE i \in 1..Len(playCalls) :
    /\ playCalls[i].wait = "micro"
    /\ \A j \in 1..(i - 1) : playCalls[j].wait # "micro"

(* log without its i-th entry. *)
Without(log, i) == SubSeq(log, 1, i - 1) \o SubSeq(log, i + 1, Len(log))

(* playGeminiAudio from its resumption, lines 193-211: the buffer is       *)
(* scheduled and tracked.                                                  *)
PlayResume ==
  /\ MicrotaskPending
  /\ LET i == FirstMicro
         startAt == StartAt(currentTime, geminiPlaybackPrimed, geminiOutputTime)
     IN /\ sources' = Append(sources, [startAt |-> startAt,
                                       duration |-> playCalls[i].duration,
                                       state |-> "scheduled",
                                       stopTime |-> 0,
                                       chunk |-> playCalls[i].chunk])
        /\ geminiPlaybackPrimed' = TRUE
        /\ geminiOutputTime' = startAt + playCalls[i].duration
        /\ geminiPlaying' = geminiPlaying \cup {Len(sources) + 1}
        /\ playCalls' = Without(playCalls, i)
  /\ UNCHANGED <<geminiAudioContext, currentTime, room, geminiLivekitTrack,
                 nChunks, nFlush, playRest>>

(* publishTrack resolves, line 161: the call that awaits it goes on. *)
PublishDone(i) ==
  /\ ~MicrotaskPending
  /\ i \in 1..Len(playCalls)
  /\ playCalls[i].wait = "publish"
  /\ playCalls' = [playCalls EXCEPT ![i].wait = "micro"]
  /\ UNCHANGED <<geminiAudioContext, currentTime, geminiOutputTime, geminiPlaybackPrimed,
                 geminiPlaying, sources, room, geminiLivekitTrack, nChunks, nFlush,
                 playRest>>

(* publishTrack rejects, line 161: the call ends there, its buffer is      *)
(* never scheduled.                                                        *)
PublishFailed(i) ==
  /\ ~MicrotaskPending
  /\ i \in 1..Len(playCalls)
  /\ playCalls[i].wait = "publish"
  /\ playCalls' = Without(playCalls, i)
  /\ UNCHANGED <<geminiAudioContext, currentTime, geminiOutputTime, geminiPlaybackPrimed,
                 geminiPlaying, sources, room, geminiLivekitTrack, nChunks, nFlush,
                 playRest>>

(* The ended event of a buffer that has played to its end, lines 209-211. *)
SourceEnded(i) ==
  /\ ~MicrotaskPending
  /\ i \in geminiPlaying
  /\ currentTime >= sources[i].startAt + sources[i].duration
  /\ geminiPlaying' = geminiPlaying \ {i}
  /\ sources' = [sources EXCEPT ![i].state = "ended"]
  /\ UNCHANGED <<geminiAudioContext, currentTime, geminiOutputTime, geminiPlaybackPrimed,
                 room, geminiLivekitTrack, playCalls, nChunks, nFlush, playRest>>

(* The clock of the AudioContext advances. *)
Tick(d) ==
  /\ geminiAudioContext
  /\ currentTime + d <= MaxTime
  /\ currentTime' = currentTime + d
  /\ UNCHANGED <<geminiAudioContext, geminiOutputTime, geminiPlaybackPrimed,
                 geminiPlaying, sources, room, geminiLivekitTrack, playCalls,
                 nChunks, nFlush, playRest>>

(* The socket closes or Disconnect is clicked: stopGeminiPlayback,         *)
(* lines 508 and 524.                                                      *)
SessionEnd ==
  /\ ~MicrotaskPending
  /\ nFlush < MaxFlushes
  /\ stopGeminiPlayback
  /\ UNCHANGED <<geminiAudioContext, currentTime, room, geminiLivekitTrack,
                 playCalls, nChunks, playRest>>

(* The LiveKit room connects, line 366. *)
RoomConnected ==
  /\ ~MicrotaskPending
  /\ ~room
  /\ room' = TRUE
  /\ UNCHANGED <<geminiAudioContext, currentTime, geminiOutputTime, geminiPlaybackPrimed,
                 geminiPlaying, sources, geminiLivekitTrack, playCalls, nChunks,
                 nFlush, playRest>>

(* The LiveKit room is left, lines 387-392 and 167-176. *)
RoomDisconnected ==
  /\ ~MicrotaskPending
  /\ room
  /\ room' = FALSE
  /\ geminiLivekitTrack' = FALSE
  /\ UNCHANGED <<geminiAudioContext, currentTime, geminiOutputTime, geminiPlaybackPrimed,
                 geminiPlaying, sources, playCalls, nChunks, nFlush, playRest>>

NextPlayback ==
  \/ \E sc \in ServerContents : GeminiPayload(sc)
  \/ PlayResume
  \/ \E i \in 1..MaxChunks : PublishDone(i)
  \/ \E i \in 1..MaxChunks : PublishFailed(i)
  \/ \E i \in 1..MaxChunks : SourceEnded(i)
  \/ \E d \in ClockSteps : Tick(d)
  \/ SessionEnd
  \/ RoomConnected
  \/ RoomDisconnected

SpecPlayback == InitPlayback /\ [][NextPlayback]_vars

(* The end of the i-th buffer on the timeline, and the time at which it    *)
(* falls silent.                                                           *)
EndOf(i) == sources[i].startAt + sources[i].duration
SilentAt(i) ==
  IF sources[i].state = "stopped" /\ sources[i].stopTime < EndOf(i)
  THEN sources[i].stopTime
  ELSE EndOf(i)

(* A step that schedules a buffer, and a step that flushes. *)
Schedules == Len(sources') = Len(sources) + 1
Flushes == nFlush' = nFlush + 1

(* No buffer starts before the buffers scheduled before it are silent. *)
NoOverlap ==
  \A i \in 1..Len(sources) : \A j \in 1..Len(sources) :
    i < j => SilentAt(i) <= sources[j].startAt

(* C17: each buffer starts at the later of the clock plus the lead-in      *)
(* (the long one for the first buffer since a flush, the short one after   *)
(* it) and the cursor, and the cursor moves to the end of the buffer;      *)
(* between flushes the cursor never decreases, and no two scheduled        *)
(* buffers overlap.                                                        *)
C17_Scheduling ==
  /\ [][ Schedules =>
           LET s == sources'[Len(sources')]
               leadIn == IF geminiPlaybackPrimed THEN LeadInNext ELSE LeadInFirst
           IN /\ s.startAt >= currentTime + leadIn
              /\ s.startAt >= geminiOutputTime
              /\ s.startAt = currentTime + leadIn \/ s.startAt = geminiOutputTime
              /\ geminiOutputTime' = s.startAt + s.duration
              /\ geminiPlaybackPrimed' ]_vars
  /\ [][ ~Flushes => geminiOutputTime' >= geminiOutputTime ]_vars
  /\ []NoOverlap

(* Two buffers of one burst: the first after the long lead-in, the second *)
(* at the cursor, where the first one ends.                                *)
C17_Witness ==
  /\ nFlush = 0
  /\ Len(sources) = 2
  /\ sources[1].startAt = LeadInFirst
  /\ sources[2].startAt = EndOf(1)
  /\ sources[2].startAt > currentTime + LeadInNext
  /\ geminiOutputTime = EndOf(2)

(* C16: a flush stops every scheduled buffer that has not finished,        *)
(* empties the tracking set and puts the cursor at the current time of     *)
(* the clock, so that the next buffer scheduled starts no later than one   *)
(* lead-in after the time of the clock at which it is scheduled.           *)
C16_Flush ==
  /\ [][ Flushes =>
           /\ \A i \in 1..Len(sources) :
                (sources[i].state = "scheduled" /\ EndOf(i) > currentTime)
                  => sources'[i].state = "stopped"
           /\ geminiPlaying' = {}
           /\ geminiAudioContext => geminiOutputTime' = currentTime ]_vars
  /\ [][ (Schedules /\ nFlush > 0 /\ ~geminiPlaybackPrimed)
           => sources'[Len(sources')].startAt <= currentTime + LeadInFirst ]_vars

(* A buffer was stopped before its end, and a buffer scheduled after the   *)
(* flush starts before the stopped one would have ended.                   *)
C16_Witness ==
  \E i \in 1..Len(sources) : \E j \in 1..Len(sources) :
    /\ i < j
    /\ sources[i].state = "stopped"
    /\ sources[i].stopTime < EndOf(i)
    /\ sources[j].state = "scheduled"
    /\ sources[j].startAt < EndOf(i)
    /\ geminiPlaying = {j}

(* ------------------------------------------------------------------ *)
(* The bridge connection and the microphone capture of the SPA         *)
(* ------------------------------------------------------------------ *)

(* Bounds: the events handled, the sockets created. *)
MaxCapEvents == 11
MaxSockets == 2

(* The blocks the worklet posts (lines 343-357 of index.ts): samples as    *)
(* numerators over SampleDen, and the rate of the context.                 *)
CaptureBlocks ==
  { [buffer |-> <<1, 1, 1>>, sampleRate |-> 48000],
    [buffer |-> <<0 - 2, 2>>, sampleRate |-> 16000] }

(* The frames the SPA sends, lines 287-291 and 322. *)
AudioFrame(data) ==
  [type |-> "audio", data |-> data,
   mimeType |-> <<"audio/pcm;rate=", geminiInputSampleRate>>]
EndFrame == [type |-> "audioStreamEnd"]

(* What the connection and the capture leave alone. *)
capRest == <<bridgeVars, codecVars>>
playIdle == <<currentTime, room, geminiLivekitTrack, playCalls, nChunks>>

(* The page as loaded: the disabled attributes of the Disconnect and Mic   *)
(* buttons are those of the HTML, either value.                            *)
InitCapture ==
  /\ BridgeOff
  /\ CodecOff
  /\ PlayOff
  /\ CapIdle
  /\ btnDisabled \in [connect : {FALSE}, disconnect : BOOLEAN, mic : BOOLEAN]

(* An event is handled. *)
CapStep(kind, stopMic) ==
  /\ nCap < MaxCapEvents
  /\ nCap' = nCap + 1
  /\ capEv' = [kind |-> kind, stopMic |-> stopMic]
  /\ UNCHANGED capRest

(* geminiWs && geminiWs.readyState === WebSocket.OPEN, for geminiWs = ws. *)
IsOpen(ws) == ws # 0 /\ readyState[ws] = "OPEN"

(* stopGeminiMic, lines 301-326, called when geminiWs is ws. *)
stopGeminiMic(ws) ==
  /\ worklets' = [w \in 1..Len(worklets) |-> worklets[w] /\ w # geminiWorklet]
  /\ geminiWorklet' = 0
  /\ streams' = [k \in 1..Len(streams) |-> streams[k] /\ k # geminiMicStream]
  /\ geminiMicStream' = 0
  /\ sent' = IF IsOpen(ws) THEN [sent EXCEPT ![ws] = Append(@, EndFrame)] ELSE sent

(* The session state that stopGeminiMic sets. *)
micVars == <<worklets, geminiWorklet, streams, geminiMicStream, sent>>

(* geminiConnectBtn click up to its await, lines 409-413. *)
ConnectClick ==
  /\ ~btnDisabled.connect
  /\ CapStep("connectClick", FALSE)
  /\ connectCalls' = IF geminiWsSpa # 0 THEN connectCalls ELSE connectCalls + 1
  /\ UNCHANGED <<gotReady, geminiWsSpa, readyState, sent, geminiReady, geminiWorklet, worklets,
                 geminiMicStream, streams, micCalls, btnDisabled, playVars>>

(* fetchConfig settles and the click handler goes on, lines 414-426: the   *)
(* bridge is enabled, disabled, or the fetch failed.                       *)
ConfigFetched(outcome) ==
  /\ connectCalls > 0
  /\ outcome = "enabled" => Len(readyState) < MaxSockets
  /\ CapStep("configFetched", FALSE)
  /\ connectCalls' = connectCalls - 1
  /\ IF outcome = "enabled"
       THEN /\ readyState' = Append(readyState, "CONNECTING")
            /\ sent' = Append(sent, <<>>)
            /\ gotReady' = Append(gotReady, FALSE)
            /\ geminiWsSpa' = Len(readyState) + 1
            /\ geminiReady' = FALSE
       ELSE UNCHANGED <<readyState, sent, gotReady, geminiWsSpa, geminiReady>>
  /\ UNCHANGED <<geminiWorklet, worklets, geminiMicStream, streams, micCalls,
                 btnDisabled, playVars>>

(* The open event of socket i, lines 427-432. *)
SocketOpen(i) ==
  /\ i \in 1..Len(readyState)
  /\ readyState[i] = "CONNECTING"
  /\ CapStep("open", FALSE)
  /\ readyState' = [readyState EXCEPT ![i] = "OPEN"]
  /\ btnDisabled' = [btnDisabled EXCEPT !.connect = TRUE, !.disconnect = FALSE]
  /\ UNCHANGED <<gotReady, geminiWsSpa, sent, geminiReady, geminiWorklet, worklets,
                 geminiMicStream, streams, connectCalls, micCalls, playVars>>

(* A frame of the bridge arrives on socket i, lines 433-466: ready, or a   *)
(* status or error frame.                                                  *)
ServerFrame(i, type) ==
  /\ i \in 1..Len(readyState)
  /\ readyState[i] = "OPEN"
  /\ CapStep(type, FALSE)
  /\ IF type = "ready"
       THEN /\ geminiReady' = TRUE
            /\ gotReady' = [gotReady EXCEPT ![i] = TRUE]
            /\ btnDisabled' = [btnDisabled EXCEPT !.mic = FALSE]
       ELSE UNCHANGED <<geminiReady, gotReady, btnDisabled>>
  /\ UNCHANGED <<geminiWsSpa, readyState, sent, geminiWorklet, worklets,
                 geminiMicStream, streams, connectCalls, micCalls, playVars>>

(* The close event of socket i, lines 499-509. *)
SocketClose(i) ==
  /\ i \in 1..Len(readyState)
  /\ readyState[i] # "CLOSED"
  /\ CapStep("close", TRUE)
  /\ readyState' = [readyState EXCEPT ![i] = "CLOSED"]
  /\ btnDisabled' = [connect |-> FALSE, disconnect |-> TRUE, mic |-> TRUE]
  /\ geminiReady' = FALSE
  /\ geminiWsSpa' = 0
  /\ stopGeminiMic(0)
  /\ stopGeminiPlayback
  /\ UNCHANGED <<gotReady, connectCalls, micCalls, geminiAudioContext, playIdle>>

(* geminiDisconnectBtn click, lines 521-527. *)
DisconnectClick ==
  /\ ~btnDisabled.disconnect
  /\ CapStep("disconnectClick", geminiWsSpa # 0)
  /\ IF geminiWsSpa = 0
       THEN UNCHANGED <<micVars, readyState, geminiWsSpa, playVars>>
       ELSE /\ stopGeminiMic(geminiWsSpa)
            /\ stopGeminiPlayback
            /\ readyState' = [readyState EXCEPT ![geminiWsSpa] =
                                IF @ \in {"CONNECTING", "OPEN"} THEN "CLOSING" ELSE @]
            /\ geminiWsSpa' = 0
            /\ UNCHANGED <<geminiAudioContext, playIdle>>
  /\ UNCHANGED <<geminiReady, gotReady, connectCalls, micCalls, btnDisabled>>

(* geminiMicBtn click, lines 529-536, with startGeminiMic up to its first  *)
(* await, lines 261-270.                                                   *)
MicClick ==
  /\ ~btnDisabled.mic
  /\ CapStep("micClick", IsOpen(geminiWsSpa) /\ geminiWorklet # 0)
  /\ IF ~IsOpen(geminiWsSpa)
       THEN UNCHANGED <<micVars, micCalls, geminiAudioContext>>
       ELSE IF geminiWorklet # 0
       THEN /\ stopGeminiMic(geminiWsSpa)
            /\ UNCHANGED <<micCalls, geminiAudioContext>>
       ELSE /\ geminiAudioContext' = TRUE
            /\ micCalls' = Append(micCalls, IF geminiMicStream = 0
                                            THEN "getUserMedia" ELSE "addModule")
            /\ UNCHANGED micVars
  /\ UNCHANGED <<gotReady, geminiWsSpa, readyState, geminiReady, connectCalls, btnDisabled,
                 geminiOutputTime, geminiPlaybackPrimed, geminiPlaying, sources,
                 nFlush, playIdle>>

(* The promise that startGeminiMic call c awaits resolves: getUserMedia    *)
(* gives a stream (line 268), or addModule is done and lines 273-298 run;  *)
(* createMediaStreamSource throws when geminiMicStream is null.            *)
MicResolved(c) ==
  /\ c \in 1..Len(micCalls)
  /\ CapStep("micResolved", FALSE)
  /\ IF micCalls[c] = "getUserMedia"
       THEN /\ streams' = Append(streams, TRUE)
            /\ geminiMicStream' = Len(streams) + 1
            /\ micCalls' = [micCalls EXCEPT ![c] = "addModule"]
            /\ UNCHANGED <<worklets, geminiWorklet>>
       ELSE /\ micCalls' = Without(micCalls, c)
            /\ IF geminiMicStream = 0
                 THEN UNCHANGED <<worklets, geminiWorklet>>
                 ELSE /\ worklets' = Append(worklets, TRUE)
                      /\ geminiWorklet' = Len(worklets) + 1
            /\ UNCHANGED <<streams, geminiMicStream>>
  /\ UNCHANGED <<gotReady, geminiWsSpa, readyState, sent, geminiReady, connectCalls,
                 btnDisabled, playVars>>

(* The promise that startGeminiMic call c awaits rejects: the call ends. *)
MicRejected(c) ==
  /\ c \in 1..Len(micCalls)
  /\ CapStep("micRejected", FALSE)
  /\ micCalls' = Without(micCalls, c)
  /\ UNCHANGED <<gotReady, geminiWsSpa, readyState, sent, geminiReady, geminiWorklet, worklets,
                 geminiMicStream, streams, connectCalls, btnDisabled, playVars>>

(* Variant of MaySend without the readiness flag. *)
MaySendNoReady == IsOpen(geminiWsSpa)

(* Line 278: the gate of the capture handler. *)
MaySend == IsOpen(geminiWsSpa) /\ geminiReady

(* Worklet w posts a block to its handler, lines 277-293. *)
WorkletBlock(w, blk) ==
  /\ w \in 1..Len(worklets)
  /\ worklets[w]
  /\ CapStep("block", FALSE)
  /\ sent' = IF MaySend
               THEN [sent EXCEPT ![geminiWsSpa] =
                       Append(@, AudioFrame(int16ToBase64(
                                   downsampleTo16k(blk.buffer, blk.sampleRate))))]
               ELSE sent
  /\ UNCHANGED <<gotReady, geminiWsSpa, readyState, geminiReady, geminiWorklet, worklets,
                 geminiMicStream, streams, connectCalls, micCalls, btnDisabled,
                 playVars>>

NextCapture ==
  \/ ConnectClick
  \/ \E outcome \in {"enabled", "disabled", "failed"} : ConfigFetched(outcome)
  \/ \E i \in 1..MaxSockets : SocketOpen(i)
  \/ \E i \in 1..MaxSockets : \E type \in {"ready", "status"} : ServerFrame(i, type)
  \/ \E i \in 1..MaxSockets : SocketClose(i)
  \/ DisconnectClick
  \/ MicClick
  \/ \E c \in 1..MaxCapEvents : MicResolved(c)
  \/ \E c \in 1..MaxCapEvents : MicRejected(c)
  \/ \E w \in 1..MaxCapEvents : \E blk \in CaptureBlocks : WorkletBlock(w, blk)

SpecCapture == InitCapture /\ [][NextCapture]_vars

(* A frame of the given type is appended to the frames sent on socket i. *)
Appends(i, type) ==
  /\ Len(sent'[i]) > Len(sent[i])
  /\ Last(sent'[i]).type = type

(* The step handles a capture block, and the step calls stopGeminiMic. *)
BlockDelivered == nCap' = nCap + 1 /\ capEv'.kind = "block"
MicStopped == nCap' = nCap + 1 /\ capEv'.stopMic

(* C15: an audio frame is sent only by the delivery of a capture block     *)
(* while the socket is open and the readiness flag is true, one frame for  *)
(* the block; the delivery of a block while not open or not ready sends    *)
(* nothing, and nothing is kept to be sent later.                          *)
C15_SendOnlyWhenReady ==
  /\ [][ \A i \in 1..Len(sent) :
           Appends(i, "audio") =>
             /\ BlockDelivered
             /\ geminiWsSpa = i
             /\ readyState[i] = "OPEN"
             /\ geminiReady
             /\ Len(sent'[i]) = Len(sent[i]) + 1
             /\ \A j \in 1..Len(sent) : j # i => sent'[j] = sent[j] ]_vars
  /\ [][ (BlockDelivered /\ ~(/\ geminiWsSpa # 0
                              /\ readyState[geminiWsSpa] = "OPEN"
                              /\ geminiReady))
           => sent' = sent ]_vars

(* A block was encoded and sent on the ready connection. *)
C15_Witness ==
  /\ capEv.kind = "block"
  /\ geminiReady
  /\ geminiWsSpa # 0
  /\ readyState[geminiWsSpa] = "OPEN"
  /\ sent[geminiWsSpa] # <<>>
  /\ Last(sent[geminiWsSpa]) =
       AudioFrame(int16ToBase64(downsampleTo16k(<<1, 1, 1>>, 48000)))

(* The connection held in geminiWs is open when the microphone is stopped  *)
(* and is not the one whose close is being handled.                        *)
OpenAtStop ==
  /\ geminiWsSpa # 0
  /\ readyState[geminiWsSpa] = "OPEN"
  /\ readyState'[geminiWsSpa] # "CLOSED"

(* C18: stopping a running capture releases the microphone and sends       *)
(* exactly one audioStreamEnd frame if the connection is open, none if it  *)
(* is not; and every audioStreamEnd frame sent is sent by the stop of a    *)
(* capture that was running.                                               *)
C18_StopSendsOneEnd ==
  /\ [][ (MicStopped /\ geminiWorklet # 0) =>
           /\ geminiWorklet' = 0
           /\ ~worklets'[geminiWorklet]
           /\ geminiMicStream' = 0
           /\ geminiMicStream # 0 => ~streams'[geminiMicStream]
           /\ IF OpenAtStop
                THEN sent' = [sent EXCEPT ![geminiWsSpa] = Append(@, EndFrame)]
                ELSE sent' = sent ]_vars
  /\ [][ \A i \in 1..Len(sent) :
           Appends(i, "audioStreamEnd") => (MicStopped /\ geminiWorklet # 0) ]_vars

(* The call that a scheduling step resumes. *)
Resumed == playCalls[FirstMicro]

(* C21: a playGeminiAudio call that began before a flush schedules no      *)
(* buffer after it: the call that a scheduling step resumes began after    *)
(* the last flush, also when it was suspended at the await of              *)
(* ensureGeminiLivekitTrack when the flush ran.                            *)
C21_NoStaleChunk ==
  [][ Schedules => Resumed.epoch = nFlush ]_vars

(* C22: chunks are placed on the timeline in the order of their            *)
(* reception: of two buffers on the timeline, neither of them flushed,     *)
(* the one whose chunk was received first has the earlier start.           *)
C22_ReceptionOrder ==
  \A i \in 1..Len(sources) : \A j \in 1..Len(sources) :
    (/\ sources[i].state # "stopped"
     /\ sources[j].state # "stopped"
     /\ sources[i].chunk < sources[j].chunk)
      => sources[i].startAt < sources[j].startAt

(* Socket i is connecting or open. *)
Connected(i) == readyState[i] \in {"CONNECTING", "OPEN"}

(* The step handles the close event of socket i. *)
CloseOf(i) ==
  /\ nCap' = nCap + 1
  /\ capEv'.kind = "close"
  /\ readyState[i] # "CLOSED"
  /\ readyState'[i] = "CLOSED"

(* C23: at most one socket is connecting or open, and geminiWs holds it;   *)
(* the close event of a socket that geminiWs no longer holds leaves the    *)
(* newer connection, its readiness and its capture as they are.            *)
C23_SingleConnection ==
  /\ [](\A i \in 1..Len(readyState) : \A j \in 1..Len(readyState) :
          (Connected(i) /\ Connected(j)) => i = j)
  /\ [](\A i \in 1..Len(readyState) : Connected(i) => geminiWsSpa = i)
  /\ [][ \A i \in 1..Len(readyState) :
           (CloseOf(i) /\ geminiWsSpa # 0 /\ geminiWsSpa # i) =>
             /\ geminiWsSpa' = geminiWsSpa
             /\ geminiReady' = geminiReady
             /\ UNCHANGED micVars ]_vars

(* C24: the readiness flag is true only if geminiWs holds a connection     *)
(* that is not closed and on which a ready frame was received; an audio    *)
(* frame is sent only on a connection on which ready was received.         *)
C24_ReadyOnHeldConnection ==
  /\ [](geminiReady =>
          /\ geminiWsSpa # 0
          /\ gotReady[geminiWsSpa]
          /\ readyState[geminiWsSpa] # "CLOSED")
  /\ [][ \A i \in 1..Len(sent) : Appends(i, "audio") => gotReady[i] ]_vars

(* The worklets whose handler is set, and the streams whose tracks are     *)
(* live.                                                                   *)
LiveWorklets == { w \in 1..Len(worklets) : worklets[w] }
LiveStreams == { k \in 1..Len(streams) : streams[k] }

(* C25: at most one worklet has a live handler; a step that calls          *)
(* stopGeminiMic leaves no live handler and no live microphone track; and  *)
(* a capture is active or the microphone held only while geminiWs holds a  *)
(* connection that is not closed.                                          *)
C25_SingleCapture ==
  /\ [](Cardinality(LiveWorklets) <= 1)
  /\ [][ MicStopped =>
           /\ \A w \in 1..Len(worklets') : ~worklets'[w]
           /\ \A k \in 1..Len(streams') : ~streams'[k] ]_vars
  /\ []((LiveWorklets # {} \/ LiveStreams # {}) =>
          /\ geminiWsSpa # 0
          /\ readyState[geminiWsSpa] # "CLOSED")

====
